---- MODULE Spec2Model ----
(***************************************************************************)
(* Model of compare_data_quality.py: the per-provider listing and          *)
(* transaction walks, the per-address loop of _run_thread, the sharding    *)
(* and join of main, and the global fold _calculate_global_stats.          *)
(*                                                                         *)
(* A thread is at a position (pc) of _run_thread or of the walk function   *)
(* it has called.  Every network call is one step; the iterations of the   *)
(* "for nft in ..." and "for t in transactions" loops are one step each,   *)
(* the record of an iteration being drawn when the loop reads it.          *)
(***************************************************************************)
EXTENDS Integers, Sequences, FiniteSets, TLC

\* ------------------------------------------------------------------ bounds
MaxShards == 2        \* largest PROCESS_COUNT explored (the source runs 64)
MaxAddresses == 3     \* longest input list explored
MaxPageLen == 2       \* most records in one response page
MaxRequests == 2      \* page requests explored within one walk
MaxTime == 3          \* timestamps are 0..MaxTime
MaxSupply == 1        \* token supplies are 0..MaxSupply
MaxCalls == 2         \* calls of _calculate_global_stats in one process
MaxLiveAddresses == 1 \* longest input list of the runs checked for progress
MaxWallets == 2       \* longest wallets list explored (the source lists 20)

\* A page cap as the specification would configure it, below the number of
\* requests explored (the walks of the source keep no count of pages).
PageCap == MaxRequests - 1

\* --------------------------------------------------------------- constants
PROVIDERS == <<"nftport", "alchemy", "moralis", "quicknode">>
ProviderSet == {PROVIDERS[i] : i \in 1..Len(PROVIDERS)}
NULL_ADDRESS == "0x0000000000000000000000000000000000000000"
OtherAddress == "0xA"
None == 0 - 1         \* Python's None where an integer may stand
LOOKBACK_DAYS == 1    \* timedelta(days=7), in units of the model's clock

Threads == 0..(MaxShards - 1)
Times == 0..MaxTime

\* -------------------------------------------------------------- data model
ContractStats ==
    [num_nfts |-> 0, num_has_metadata |-> 0, num_has_cached_image |-> 0,
     num_sale_transactions |-> 0, has_floor_price |-> FALSE]

CompareContractStats(address, slug, token_supply, nftport, alchemy, moralis, quicknode) ==
    [address |-> address, slug |-> slug, token_supply |-> token_supply,
     nftport |-> nftport, alchemy |-> alchemy, moralis |-> moralis,
     quicknode |-> quicknode]

GlobalContractsStats ==
    [total_num_nfts |-> 0, total_num_has_metadata |-> 0,
     total_num_has_cached_image |-> 0, total_num_sale_transactions |-> 0,
     total_collections_floor_price_found |-> 0]

VARIABLES
    scenario,            \* which provider stub answers the requests
    PROCESS_COUNT,       \* the shard count of this run
    is_get_transactions, \* the transaction pass switch
    clock,               \* datetime.utcnow()
    order,               \* how the providers order their transaction streams
    df,                  \* main: the input list (addresses, in file order)
    patches,             \* main: the shards
    mainPc,              \* main: position
    futures,             \* main: number of workers submitted
    joined,              \* main: number of futures whose result was taken
    contract_stats,      \* main: the global results list
    global_stats,        \* main: the value _calculate_global_stats returned
    defaults,            \* the class-level default instances of GlobalCompareContractStats
    calls,               \* number of calls of _calculate_global_stats so far
    backup,              \* stats_backup.md, one entry per block written
    report,              \* stats.md
    th,                  \* per thread: the locals of _run_thread and of its callee
    thread_stats,        \* per thread: the local contract_stats list
    obs,                 \* per thread: what an observer of the walk has seen
    client,              \* one network call through the client of build_http_client
    own                  \* compare_ownership: the locals of its main

envVars == <<scenario, PROCESS_COUNT, is_get_transactions, clock, order, client, own>>
mainVars == <<df, patches, mainPc, futures, joined, contract_stats, report>>
foldVars == <<global_stats, defaults, calls>>
threadVars == <<th, thread_stats, obs, backup>>
vars == <<scenario, PROCESS_COUNT, is_get_transactions, clock, order, df, patches,
          mainPc, futures, joined, contract_stats, global_stats, defaults,
          calls, backup, report, th, thread_stats, obs, client, own>>

\* --------------------------------------------------------- provider stubs
\* What the providers may answer, per scenario.
\*   "walk":         one walk function called on its own; any page.
\*   "listing":      one address through _run_thread; listing pages carry
\*                   records, transaction pages are empty.
\*   "transactions": one address through _run_thread; listing pages are
\*                   empty, transaction pages carry records.
\*   "run":          a run of main over several threads; every page is empty.
\*   "live":         a run of main in which any call may fail and a cursor
\*                   walk may be handed a next cursor for ever; the first
\*                   page of an nftport walk may carry a record, every
\*                   other page is empty.
Bool == {FALSE, TRUE}

Falsy(c) == c \in {"", "None"}

ListingPageLens ==
    IF scenario = "walk" THEN 0..MaxPageLen
    ELSE IF scenario \in {"listing", "live"} THEN 0..1 ELSE {0}

TxPageLens ==
    IF scenario = "walk" THEN 0..MaxPageLen
    ELSE IF scenario \in {"transactions", "live"} THEN 0..1 ELSE {0}

\* Cursor values a response may carry ("None": the key is absent).
ListingCursors ==
    IF scenario \in {"walk", "live"} THEN {"None", "t1", "t2"}
    ELSE IF scenario = "listing" THEN {"None", "t1"} ELSE {"None"}

TxCursors ==
    IF scenario = "live" THEN {"None", "t1", "t2"}
    ELSE IF scenario \in {"walk", "transactions"} THEN {"None", "t1"} ELSE {"None"}

\* Whether a page or floor-price request may raise.
MayRaise == scenario # "run"

FloorValues ==
    IF scenario \in {"walk", "listing"} THEN {"price", "none"} ELSE {"none"}

\* What the getContractMetadata call gives: a raise, or totalSupply.
SupplyValues ==
    {[raises |-> TRUE, totalSupply |-> None]} \cup
    {[raises |-> FALSE, totalSupply |-> v] :
        v \in (IF scenario = "live" THEN {MaxSupply} ELSE {None, MaxSupply})}

\* -------------------------------------------------------- the HTTP client
\* build_http_client: Retry(total=total_retries, status_forcelist=[...]).
total_retries == 5
status_forcelist == {429, 500, 502, 503, 504}

\* The statuses a server answers with: success, a client error, and the
\* statuses of the force list.
Statuses == {200, 404} \cup status_forcelist

\* What the body of a reply is: a JSON page of the endpoint, a JSON object
\* without the keys the walk reads (an error document), or no JSON at all.
Bodies == {"page", "object", "invalid"}

\* The last reply of one network call, as the caller of client.get meets it.
HttpReplies ==
    IF scenario = "walk" THEN [status : {200, 404, 503}, body : Bodies]
    ELSE IF MayRaise THEN [status : {200}, body : {"page", "invalid"}]
    ELSE [status : {200}, body : {"page"}]

\* client.get(...) followed by response.json(): the adapter raises when the
\* retries are used up on a status of the force list, json() raises on a body
\* that is not JSON; the status of the reply is read nowhere else.
ExecuteRaises(reply) ==
    reply.status \in status_forcelist \/ reply.body = "invalid"

\* A reply that is a failure no retry is made for.
NonRetryable(reply) ==
    /\ reply.status \notin status_forcelist
    /\ (reply.status \in 400..499 \/ reply.body = "invalid")

\* The methods the Retry object retries, and the two the program sends.
method_whitelist == {"HEAD", "GET", "POST", "OPTIONS"}
Methods == {"GET", "POST"}

\* No network call in progress.
ClientIdle ==
    [pc |-> "idle", method |-> "GET", total |-> total_retries, sent |-> 0,
     log |-> << >>]

\* client.get / client.post entered: Retry(total=total_retries), nothing sent.
ClientCall(method) == [ClientIdle EXCEPT !.pc = "send", !.method = method]

\* Retry.is_retry: the method is retried and the status is of the force list.
is_retry(method, status) ==
    method \in method_whitelist /\ status \in status_forcelist

\* Retry.is_exhausted, had the budget counted sends instead of retries.
ExhaustedAtZero(total) == total <= 0

\* Retry.is_exhausted, tested after increment() has taken one from total.
is_exhausted(total) == total < 0

\* ------------------------------------------------ compare_ownership: data
\* The providers in the order main asks them for a wallet.
WalletProviders == <<"nftport", "alchemy", "quicknode", "moralis">>

\* WalletStats(address=address): the four <provider>_nfts_count fields, 0.
WalletStats(address) ==
    [address |-> address, nfts_count |-> [p \in ProviderSet |-> 0]]

\* GlobalProviderStats(): the four total_<provider>_nfts_count fields, 0.
GlobalProviderStats == [p \in ProviderSet |-> 0]

\* The value under the count key of a response: a number, or null.
WalletCounts == {0, 1, None}

\* What one _execute_<p>_request(address) and the .get that reads the
\* count give: an exception, or the value found.
WalletResponses ==
    {[raises |-> TRUE, total |-> 0]}
    \cup {[raises |-> FALSE, total |-> c] : c \in WalletCounts}

\* compare_ownership not running.
OwnIdle ==
    [pc |-> "idle", wallets |-> << >>, index |-> 0, k |-> 1,
     wallet_stats |-> WalletStats(0), gloabl_stats |-> GlobalProviderStats,
     wallets_stats |-> << >>, file |-> << >>, raised |-> {}]

\* The next iteration of "for address in tqdm(wallets)", or the end of the loop.
NextWallet(o) ==
    IF o.index < Len(o.wallets)
    THEN [o EXCEPT !.pc = "get", !.index = @ + 1, !.k = 1, !.raised = {},
                   !.wallet_stats = WalletStats(o.wallets[o.index + 1])]
    ELSE [o EXCEPT !.pc = "write", !.k = 1, !.raised = {}]

\* Entry of main: gloabl_stats = GlobalProviderStats(), wallets_stats = [].
OwnStart(wallets) == NextWallet([OwnIdle EXCEPT !.wallets = wallets])

\* The except branch of _get_<p>_stats returning None for "no count".
WalletExceptNone(count) == None

\* The except branch of _get_<p>_stats: the error is printed, count is returned.
WalletExcept(count) == count

\* gloabl_stats.total_<p>_nfts_count += wallet_stats.<p>_nfts_count, four times.
Accumulate(g, ws) == [p \in ProviderSet |-> g[p] + ws.nfts_count[p]]

\* The records of a listing page, by the truthiness of the fields the code reads.
NftRecords(provider) ==
    IF provider = "nftport" THEN
        [metadata : IF scenario = "walk" THEN Bool ELSE {TRUE},
         cached_file_url : IF scenario = "walk" THEN Bool ELSE {TRUE}]
    ELSE IF provider = "alchemy" THEN
        [metadata : IF scenario = "walk" THEN Bool ELSE {TRUE},
         media : IF scenario = "walk"
                 THEN {"none", "no_gateway", "ipfs", "cloudinary"}
                 ELSE {"cloudinary"}]
    ELSE IF provider = "moralis" THEN
        [metadata : IF scenario = "walk" THEN Bool ELSE {TRUE}]
    ELSE
        [imageUrl : IF scenario = "walk" THEN Bool ELSE {TRUE},
         traits : IF scenario = "walk" THEN Bool ELSE {FALSE}]

\* The records of a transaction page.  ts = None stands for a date
\* datetime.fromisoformat cannot parse; the loop reads no other field of
\* such a record.
TxRecords(provider) ==
    IF scenario = "walk" THEN
        [ts : Times, from : {NULL_ADDRESS, OtherAddress},
         to : {NULL_ADDRESS, OtherAddress},
         type : IF provider = "nftport" THEN {"sale", "mint"} ELSE {"transfer"},
         value : {0, 1}]
        \cup
        [ts : {None}, from : {OtherAddress}, to : {OtherAddress},
         type : {IF provider = "nftport" THEN "sale" ELSE "transfer"},
         value : {1}]
    ELSE
        [ts : {clock}, from : {OtherAddress}, to : {OtherAddress},
         type : {IF provider = "nftport" THEN "sale" ELSE "transfer"},
         value : {1}]

\* ------------------------------------------------------------ loop bodies
\* One iteration of the loop of _crunch_nftport_stats.
_crunch_nftport_stats(nft, stats) ==
    [stats EXCEPT
        !.num_has_metadata = IF nft.metadata THEN @ + 1 ELSE @,
        !.num_has_cached_image = IF nft.cached_file_url THEN @ + 1 ELSE @,
        !.num_nfts = @ + 1]

\* _crunch_alechemy_stats with the cached-image test outside the metadata test.
CrunchAlchemyUnnested(nft, stats) ==
    [stats EXCEPT
        !.num_has_metadata = IF nft.metadata THEN @ + 1 ELSE @,
        !.num_has_cached_image = IF nft.media = "cloudinary" THEN @ + 1 ELSE @,
        !.num_nfts = @ + 1]

\* One iteration of the loop of _crunch_alechemy_stats.
_crunch_alechemy_stats(nft, stats) ==
    [stats EXCEPT
        !.num_has_metadata = IF nft.metadata THEN @ + 1 ELSE @,
        !.num_has_cached_image =
            IF nft.metadata /\ nft.media \in {"ipfs", "cloudinary"}
               /\ nft.media = "cloudinary"
            THEN @ + 1 ELSE @,
        !.num_nfts = @ + 1]

\* One iteration of the loop of _crunch_moralis_stats.
_crunch_moralis_stats(nft, stats) ==
    [stats EXCEPT
        !.num_has_metadata = IF nft.metadata THEN @ + 1 ELSE @,
        !.num_nfts = @ + 1]

\* _crunch_quicknode_stats taking a token's imageUrl for a cached image.
CrunchQuicknodeCachesImage(nft, stats) ==
    [stats EXCEPT
        !.num_has_metadata = IF nft.imageUrl \/ nft.traits THEN @ + 1 ELSE @,
        !.num_has_cached_image = IF nft.imageUrl THEN @ + 1 ELSE @,
        !.num_nfts = @ + 1]

\* One iteration of the loop of _crunch_quicknode_stats.
_crunch_quicknode_stats(nft, stats) ==
    [stats EXCEPT
        !.num_has_metadata = IF nft.imageUrl \/ nft.traits THEN @ + 1 ELSE @,
        !.num_nfts = @ + 1]

Crunch(provider, nft, stats) ==
    IF provider = "nftport" THEN _crunch_nftport_stats(nft, stats)
    ELSE IF provider = "alchemy" THEN _crunch_alechemy_stats(nft, stats)
    ELSE IF provider = "moralis" THEN _crunch_moralis_stats(nft, stats)
    ELSE _crunch_quicknode_stats(nft, stats)

\* ------------------------------------------------------------ thread state
ThreadInit ==
    [pc |-> "idle", prov |-> "nftport", phase |-> "fetch", remaining |-> 0,
     page_number |-> 1, cursor |-> "", sales |-> 0, flag |-> FALSE,
     stats |-> [p \in ProviderSet |-> ContractStats],
     token_supply |-> None, index |-> 0, standalone |-> FALSE,
     transaction_start_limit |-> 0, transaction_lookback_limit |-> 0]

ObsInit ==
    [requests |-> 0,                            \* page requests of the current walk
     delivered |-> [p \in ProviderSet |-> 0],   \* records of the pages fetched, per listing walk
     failed |-> {},                             \* providers whose listing walk raised
     walked |-> {},                             \* providers whose listing walk returned
     txWalked |-> {},                           \* providers whose transaction walk returned
     errors |-> {},                             \* rows whose error reached _run_thread
     lastTs |-> None,                           \* timestamp of the last transaction read
     sawOld |-> FALSE,                          \* a record older than the lookback limit was read
     afterOld |-> FALSE,                        \* a request or a count happened after it
     nullCounted |-> FALSE,                     \* a record with a zero-address party was counted
     nullSkipped |-> FALSE,                     \* an in-window, valued one was read and not counted
     nonRetryable |-> FALSE,                    \* a page request of the walk met a non-retryable failure
     aborted |-> FALSE,                         \* a page of the walk raised into the except branch
     floorRaised |-> FALSE,                     \* the floor price lookup of the walk raised
     missed |-> FALSE,                          \* the walk stopped before a record it would have counted
     counted |-> {},                            \* the timestamps of the records counted
     futureStopped |-> FALSE,                   \* a record newer than the start limit changed the walk's course
     sent |-> "None",                           \* the cursor the last request carried
     sentPage |-> 0,                            \* the page number the last request carried
     returned |-> "None",                       \* the cursor the last response carried
     finalSeen |-> FALSE]                       \* the walk was served its last page

\* The row of thread w's shard that index points at.
Row(w) == patches[w + 1][th[w].index]

\* The first cursor of a listing walk (start_token = "", cursor = None).
ListingInitialCursor(p) == IF p = "alchemy" THEN "" ELSE "None"

\* The first cursor of a transaction walk (continuation = "", page_key = None, cursor = None).
TxInitialCursor(p) == IF p = "nftport" THEN "" ELSE "None"

\* Entry of _get_<p>_contract_stats: page_number = 1 / cursor, stats = ContractStats().
EnterListing(t, p) ==
    [t EXCEPT !.pc = "list", !.prov = p, !.phase = "fetch", !.remaining = 0,
              !.page_number = 1, !.cursor = ListingInitialCursor(p),
              !.stats[p] = ContractStats]

\* Entry of _get_<p>_transaction_stats: cursor, sales = 0, flag = False.
EnterTx(t, p) ==
    [t EXCEPT !.pc = "tx", !.prov = p, !.phase = "fetch", !.remaining = 0,
              !.cursor = TxInitialCursor(p), !.sales = 0, !.flag = FALSE]

\* _run_thread making the transaction pass whatever is_get_transactions says.
AfterListingsAlways(t) ==
    EnterTx([t EXCEPT !.transaction_start_limit = clock,
                      !.transaction_lookback_limit = clock - LOOKBACK_DAYS],
            "nftport")

\* _run_thread after the four listing walks: the transaction pass, if enabled.
AfterListings(t) ==
    IF is_get_transactions
    THEN EnterTx([t EXCEPT !.transaction_start_limit = clock,
                           !.transaction_lookback_limit = clock - LOOKBACK_DAYS],
                 "nftport")
    ELSE [t EXCEPT !.pc = "append"]

\* Return of _get_<p>_contract_stats into _run_thread: the next call.
ReturnListing(t) ==
    IF t.standalone THEN [t EXCEPT !.pc = "returned"]
    ELSE IF t.prov = "nftport" THEN EnterListing(t, "alchemy")
    ELSE IF t.prov = "alchemy" THEN EnterListing(t, "moralis")
    ELSE IF t.prov = "moralis" THEN EnterListing(t, "quicknode")
    ELSE AfterListings(t)

\* An except branch of a listing walk that returns a new ContractStats().
ListingExceptFresh(t) == ReturnListing([t EXCEPT !.stats[t.prov] = ContractStats])

\* The except branch of a listing walk: the error is printed, stats is returned.
ListingExcept(t) == ReturnListing(t)

\* The cursor walks asking the floor price after their first page, last or not.
AfterListingPageFloorFirst(t, pageEmpty) ==
    IF t.prov \in {"nftport", "quicknode"} THEN
        IF pageEmpty
        THEN IF t.prov = "nftport" THEN [t EXCEPT !.pc = "floor"]
             ELSE ReturnListing(t)
        ELSE [t EXCEPT !.page_number = @ + 1, !.phase = "fetch"]
    ELSE [t EXCEPT !.pc = "floor"]

\* After the for loop over one listing page: break or go on to the next page.
AfterListingPage(t, pageEmpty) ==
    IF t.prov \in {"nftport", "quicknode"} THEN
        IF pageEmpty
        THEN IF t.prov = "nftport" THEN [t EXCEPT !.pc = "floor"]
             ELSE ReturnListing(t)
        ELSE [t EXCEPT !.page_number = @ + 1, !.phase = "fetch"]
    ELSE
        IF Falsy(t.cursor) THEN [t EXCEPT !.pc = "floor"]
        ELSE [t EXCEPT !.phase = "fetch"]

\* _run_thread building the record straight after alchemy's transaction walk.
ReturnTxSkipsMoralis(t) ==
    IF t.standalone THEN [t EXCEPT !.pc = "returned"]
    ELSE LET u == [t EXCEPT !.stats[t.prov].num_sale_transactions = t.sales]
         IN  IF t.prov = "nftport" THEN EnterTx(u, "alchemy")
             ELSE [u EXCEPT !.pc = "append"]

\* Return of _get_<p>_transaction_stats into _run_thread: the count is
\* stored in the provider's stats and the next call is made.
ReturnTx(t) ==
    IF t.standalone THEN [t EXCEPT !.pc = "returned"]
    ELSE LET u == [t EXCEPT !.stats[t.prov].num_sale_transactions = t.sales]
         IN  IF t.prov = "nftport" THEN EnterTx(u, "alchemy")
             ELSE IF t.prov = "alchemy" THEN EnterTx(u, "moralis")
             ELSE [u EXCEPT !.pc = "append"]

\* An except branch of a transaction walk that returns -1 for "no count".
TxExceptSentinel(t) == ReturnTx([t EXCEPT !.sales = 0 - 1])

\* The except branch of a transaction walk: the error is printed, sales is returned.
TxExcept(t) == ReturnTx(t)

\* After the for loop over one transaction page.
AfterTxPage(t) ==
    IF Falsy(t.cursor) THEN ReturnTx(t)
    ELSE IF t.flag THEN ReturnTx(t)
    ELSE [t EXCEPT !.phase = "fetch"]

\* The nftport loop body without the test against the start limit.
NftportTxBodyNoStartLimit(t, transaction_start_limit, transaction_lookback_limit) ==
    IF t.ts = None THEN "raise"
    ELSE IF t.ts < transaction_lookback_limit THEN "break"
    ELSE IF t.type = "sale" /\ t.value # 0 THEN "count"
    ELSE "pass"

\* The body of the loop of _get_nftport_transaction_stats for record t.
NftportTxBody(t, transaction_start_limit, transaction_lookback_limit) ==
    IF t.ts = None THEN "raise"
    ELSE IF t.ts > transaction_start_limit THEN "continue"
    ELSE IF t.ts < transaction_lookback_limit THEN "break"
    ELSE IF t.type = "sale" /\ t.value # 0 THEN "count"
    ELSE "pass"

\* The alchemy loop body without the mint and burn exclusion.
AlchemyTxBodyNoExclusion(t, transaction_start_limit, transaction_lookback_limit) ==
    IF t.ts = None THEN "raise"
    ELSE IF t.ts > transaction_start_limit THEN "continue"
    ELSE IF t.ts < transaction_lookback_limit THEN "break"
    ELSE IF t.value # 0 THEN "count"
    ELSE "pass"

\* The body of the loop of _get_alchemy_transaction_stats for record t.
AlchemyTxBody(t, transaction_start_limit, transaction_lookback_limit) ==
    IF t.ts = None THEN "raise"
    ELSE IF t.ts > transaction_start_limit THEN "continue"
    ELSE IF t.from = NULL_ADDRESS \/ t.to = NULL_ADDRESS THEN "continue"
    ELSE IF t.ts < transaction_lookback_limit THEN "break"
    ELSE IF t.value # 0 THEN "count"
    ELSE "pass"

\* The body of the loop of _get_moralis_transaction_stats for record t.
MoralisTxBody(t, transaction_start_limit, transaction_lookback_limit) ==
    IF t.ts = None THEN "raise"
    ELSE IF t.ts > transaction_start_limit THEN "continue"
    ELSE IF t.from = NULL_ADDRESS \/ t.to = NULL_ADDRESS THEN "continue"
    ELSE IF t.ts < transaction_lookback_limit THEN "break"
    ELSE IF t.value > 0 THEN "count"
    ELSE "pass"

TxBody(p, t, start, lookback) ==
    IF p = "nftport" THEN NftportTxBody(t, start, lookback)
    ELSE IF p = "alchemy" THEN AlchemyTxBody(t, start, lookback)
    ELSE MoralisTxBody(t, start, lookback)

\* start_token = response.get("nextToken") left out: the cursor stays as it was.
KeepCursor(t, next) == t

\* start_token = response.get("nextToken") (cursor, continuation, page_key).
TakeCursor(t, next) == [t EXCEPT !.cursor = next]

\* The cursor parameter of the request _execute_<p>_request or
\* _execute_<p>_transactions builds: alchemy's listing request always has
\* startToken; the others leave the parameter out when the cursor is falsy.
RequestCursor(kind, p, cursor) ==
    IF kind = "list" /\ p \in {"nftport", "quicknode"} THEN "None"
    ELSE IF kind = "list" /\ p = "alchemy" THEN cursor
    ELSE IF Falsy(cursor) THEN "None" ELSE cursor

\* ------------------------------------------------------- the observer
\* u starts a walk that t was not in.
NewWalk(t, u) ==
    /\ u.pc \in {"list", "tx"}
    /\ \/ t.prov # u.prov
       \/ (t.pc \in {"list", "floor"}) # (u.pc = "list")
       \/ t.pc \notin {"list", "floor", "tx"}

\* u is no longer in the listing walk t was in.
LeftListing(t, u) == ~(u.pc \in {"list", "floor"} /\ u.prov = t.prov)

\* The observer's record once thread state t has become u.
Observe(o, t, u) ==
    LET o1 == IF t.pc \in {"list", "floor"} /\ LeftListing(t, u)
              THEN [o EXCEPT !.walked = @ \cup {t.prov}] ELSE o
        o1t == IF t.pc = "tx" /\ ~(u.pc = "tx" /\ u.prov = t.prov)
               THEN [o1 EXCEPT !.txWalked = @ \cup {t.prov}] ELSE o1
        o2 == IF u.pc \in {"supply", "completed"}
              THEN [o1t EXCEPT !.walked = {}, !.txWalked = {}, !.failed = {}]
              ELSE o1t
        o3 == IF NewWalk(t, u) \/ u.pc \notin {"list", "floor", "tx", "returned"}
              THEN [o2 EXCEPT !.nonRetryable = FALSE, !.aborted = FALSE,
                              !.floorRaised = FALSE,
                              !.counted = {}, !.sent = "None", !.sentPage = 0,
                              !.returned = "None", !.finalSeen = FALSE]
              ELSE o2
    IN  IF NewWalk(t, u)
        THEN [o3 EXCEPT !.requests = 0, !.lastTs = None, !.sawOld = FALSE,
                        !.missed = FALSE, !.counted = {},
                        !.delivered = IF u.pc = "list"
                                      THEN [@ EXCEPT ![u.prov] = 0] ELSE @]
        ELSE o3

\* ------------------------------------------------------- the responses
\* What _execute_<p>_request gives for a reply: a raise, or the parsed body.
\* response.get(key) on an object without the key is None: no records, no cursor.
PageOf(reply, n, c) ==
    [raises |-> ExecuteRaises(reply), status |-> reply.status, body |-> reply.body,
     len |-> IF ExecuteRaises(reply) \/ reply.body # "page" THEN 0 ELSE n,
     next |-> IF ExecuteRaises(reply) \/ reply.body # "page" THEN "None" ELSE c]

ListingResponses ==
    {PageOf(h, n, c) : h \in HttpReplies, n \in ListingPageLens, c \in ListingCursors}

TxResponses ==
    {PageOf(h, n, c) : h \in HttpReplies, n \in TxPageLens, c \in TxCursors}

FloorResponses ==
    {[raises |-> TRUE, price |-> "none"] : x \in {y \in {1} : MayRaise}}
    \cup {[raises |-> FALSE, price |-> v] : v \in FloorValues}

\* A transaction record the provider may hand out next, given its ordering.
InOrder(r, lastTs) ==
    \/ r.ts = None
    \/ lastTs = None
    \/ order = "any"
    \/ order = "desc" /\ r.ts <= lastTs
    \/ order = "asc" /\ r.ts >= lastTs

\* The record that follows record r in the stream of thread w's walk, when
\* the loop leaves at r: a further record of the page or of the page the
\* cursor points at, in the order of the stream; r itself stands for a
\* stream that ends at r.
Unread(w, r) ==
    {r} \cup
    IF th[w].remaining > 1 \/ ~Falsy(th[w].cursor)
    THEN {n \in TxRecords(th[w].prov) : n.ts # None /\ InOrder(n, r.ts)}
    ELSE {}

\* --------------------------------------------------------- walk actions
\* The walk of thread w has made fewer requests than are counted; further
\* requests are not counted.
Explored(w) ==
    obs[w].requests < (IF scenario = "live" THEN 1 ELSE MaxRequests)

\* The page the walk of thread w asks for next may carry records.
Carries(w) ==
    Explored(w) /\ (scenario = "live" => th[w].prov = "nftport")

\* One page request of a listing walk (_execute_<p>_request) and, for an
\* empty page, the loop exit test.
ListingFetch(w) ==
    /\ th[w].pc = "list" /\ th[w].phase = "fetch"
    /\ Explored(w) \/ scenario = "live"
    /\ \E resp \in ListingResponses :
         LET t == th[w]
             p == t.prov
             \* page-number walks read no cursor from the response
             t1 == IF p \in {"alchemy", "moralis"}
                   THEN TakeCursor(t, resp.next) ELSE t
             u == IF resp.raises THEN ListingExcept(t)
                  ELSE IF resp.len = 0 THEN AfterListingPage(t1, TRUE)
                  ELSE [t1 EXCEPT !.phase = "loop", !.remaining = resp.len]
             o == [obs[w] EXCEPT
                      !.requests = IF Explored(w) THEN @ + 1 ELSE @,
                      !.delivered[p] = @ + resp.len,
                      !.failed = IF resp.raises THEN @ \cup {p} ELSE @,
                      !.nonRetryable = @ \/ NonRetryable(resp),
                      !.aborted = @ \/ resp.raises,
                      !.sent = RequestCursor("list", p, t.cursor),
                      !.sentPage = IF p \in {"nftport", "quicknode"}
                                   THEN t.page_number ELSE 0,
                      !.returned = IF resp.raises THEN @ ELSE resp.next,
                      !.finalSeen = @ \/ (~resp.raises /\
                                          IF p \in {"nftport", "quicknode"}
                                          THEN resp.len = 0 ELSE Falsy(resp.next))]
         IN  /\ (p \in {"nftport", "quicknode"} => resp.next = "None")
             /\ (~Carries(w) => resp.len = 0)
             /\ th' = [th EXCEPT ![w] = u]
             /\ obs' = [obs EXCEPT ![w] = Observe(o, t, u)]
    /\ UNCHANGED <<envVars, mainVars, foldVars, thread_stats, backup>>

\* One iteration of the loop of _crunch_<p>_stats and, after the last
\* record of the page, the loop exit test.
ListingLoop(w) ==
    /\ th[w].pc = "list" /\ th[w].phase = "loop"
    /\ \E nft \in NftRecords(th[w].prov) :
         LET t == th[w]
             p == t.prov
             t1 == [t EXCEPT !.stats[p] = Crunch(p, nft, t.stats[p]),
                             !.remaining = @ - 1]
             u == IF t1.remaining = 0 THEN AfterListingPage(t1, FALSE) ELSE t1
         IN  /\ th' = [th EXCEPT ![w] = u]
             /\ obs' = [obs EXCEPT ![w] = Observe(obs[w], t, u)]
    /\ UNCHANGED <<envVars, mainVars, foldVars, thread_stats, backup>>

\* The floor price lookup that ends the nftport, alchemy and moralis walks.
FloorStep(w) ==
    /\ th[w].pc = "floor"
    /\ \E resp \in FloorResponses :
         LET t == th[w]
             p == t.prov
             u == IF resp.raises THEN ListingExcept(t)
                  ELSE IF resp.price = "price"
                  THEN ReturnListing([t EXCEPT !.stats[p].has_floor_price = TRUE])
                  ELSE ReturnListing(t)
             o == [obs[w] EXCEPT !.floorRaised = resp.raises]
         IN  /\ th' = [th EXCEPT ![w] = u]
             /\ obs' = [obs EXCEPT ![w] = Observe(o, t, u)]
    /\ UNCHANGED <<envVars, mainVars, foldVars, thread_stats, backup>>

\* One page request of a transaction walk (_execute_<p>_transactions) and,
\* for an empty page, the loop exit tests.
TxFetch(w) ==
    /\ th[w].pc = "tx" /\ th[w].phase = "fetch"
    /\ Explored(w) \/ scenario = "live"
    /\ \E resp \in TxResponses :
         LET t == th[w]
             t1 == TakeCursor(t, resp.next)
             u == IF resp.raises THEN TxExcept(t)
                  ELSE IF resp.len = 0 THEN AfterTxPage(t1)
                  ELSE [t1 EXCEPT !.phase = "loop", !.remaining = resp.len]
             o == [obs[w] EXCEPT
                      !.requests = IF Explored(w) THEN @ + 1 ELSE @,
                      !.afterOld = @ \/ obs[w].sawOld,
                      !.nonRetryable = @ \/ NonRetryable(resp),
                      !.aborted = @ \/ resp.raises,
                      !.sent = RequestCursor("tx", t.prov, t.cursor),
                      !.returned = IF resp.raises THEN @ ELSE resp.next,
                      !.finalSeen = @ \/ (~resp.raises /\ Falsy(resp.next))]
         IN  /\ (~Carries(w) => resp.len = 0)
             /\ th' = [th EXCEPT ![w] = u]
             /\ obs' = [obs EXCEPT ![w] = Observe(o, t, u)]
    /\ UNCHANGED <<envVars, mainVars, foldVars, thread_stats, backup>>

\* One iteration of "for t in transactions" and, after the last record
\* or a break, the loop exit tests.
TxLoop(w) ==
    /\ th[w].pc = "tx" /\ th[w].phase = "loop"
    /\ \E r \in TxRecords(th[w].prov) :
         LET t == th[w]
             p == t.prov
             what == TxBody(p, r, t.transaction_start_limit,
                            t.transaction_lookback_limit)
             t1 == IF what = "break" THEN [t EXCEPT !.flag = TRUE, !.remaining = 0]
                   ELSE IF what = "count"
                   THEN [t EXCEPT !.sales = @ + 1, !.remaining = @ - 1]
                   ELSE [t EXCEPT !.remaining = @ - 1]
             u == IF what = "raise" THEN TxExcept(t)
                  ELSE IF t1.remaining = 0 THEN AfterTxPage(t1)
                  ELSE t1
             old == r.ts # None /\ r.ts < t.transaction_lookback_limit
             future == r.ts # None /\ r.ts > t.transaction_start_limit
             \* the walk goes on after r: to the next record of the page,
             \* to the next page, or out by the empty cursor
             goesOn == /\ u.sales = t.sales /\ u.flag = t.flag
                       /\ IF t.remaining > 1
                          THEN u.pc = "tx" /\ u.phase = "loop"
                               /\ u.remaining = t.remaining - 1
                          ELSE IF Falsy(t.cursor) THEN u.pc # "tx" \/ u.prov # p
                          ELSE u.pc = "tx" /\ u.prov = p /\ u.phase = "fetch"
             o == [obs[w] EXCEPT
                      !.lastTs = IF r.ts = None THEN @ ELSE r.ts,
                      !.afterOld = @ \/ (obs[w].sawOld /\ what = "count"),
                      !.sawOld = @ \/ old,
                      !.aborted = @ \/ (what = "raise"),
                      !.counted = IF what = "count" THEN @ \cup {r.ts} ELSE @,
                      !.futureStopped = @ \/ (future /\ ~goesOn),
                      !.nullCounted = @ \/ (what = "count" /\
                          (r.from = NULL_ADDRESS \/ r.to = NULL_ADDRESS)),
                      !.nullSkipped = @ \/ (what # "count" /\ r.value # 0 /\
                          r.type # "mint" /\ r.ts # None /\
                          r.ts >= t.transaction_lookback_limit /\
                          r.ts <= t.transaction_start_limit /\
                          (r.from = NULL_ADDRESS \/ r.to = NULL_ADDRESS))]
         IN  /\ InOrder(r, obs[w].lastTs)
             /\ th' = [th EXCEPT ![w] = u]
             /\ \E n \in (IF what = "break" THEN Unread(w, r) ELSE {r}) :
                    LET counted == TxBody(p, n, t.transaction_start_limit,
                                          t.transaction_lookback_limit) = "count"
                        o4 == [o EXCEPT !.missed = @ \/ (what = "break" /\ counted)]
                    IN  obs' = [obs EXCEPT ![w] = Observe(o4, t, u)]
    /\ UNCHANGED <<envVars, mainVars, foldVars, thread_stats, backup>>

\* ------------------------------------------------- one walk on its own
ListingFunctions == ProviderSet
TxFunctions == {"nftport", "alchemy", "moralis"}

\* A call of one walk function with the arguments _run_thread gives it.
StandaloneCall(kind, p) ==
    LET t == [ThreadInit EXCEPT !.standalone = TRUE,
                                !.transaction_start_limit = clock,
                                !.transaction_lookback_limit = clock - LOOKBACK_DAYS]
    IN  IF kind = "list" THEN EnterListing(t, p) ELSE EnterTx(t, p)

InitIdleMain ==
    /\ df = << >> /\ patches = << >> /\ mainPc = "harness"
    /\ futures = 0 /\ joined = 0 /\ contract_stats = << >> /\ report = << >>
    /\ backup = << >>

InitFold ==
    /\ client = ClientIdle
    /\ own = OwnIdle
    /\ global_stats = [total_num_collections |-> 0, total_token_supply |-> 0,
                       prov |-> [p \in ProviderSet |-> GlobalContractsStats]]
    /\ defaults = [p \in ProviderSet |-> GlobalContractsStats]
    /\ calls = 0

InitWalk ==
    /\ scenario = "walk"
    /\ PROCESS_COUNT = 1
    /\ is_get_transactions = TRUE
    /\ clock = MaxTime - 1
    /\ order \in {"desc", "asc"}
    /\ InitIdleMain
    /\ InitFold
    /\ \E kind \in {"list", "tx"} :
         \E p \in (IF kind = "list" THEN ListingFunctions ELSE TxFunctions) :
            /\ (kind = "list" => order = "desc")
            /\ th = [w \in Threads |->
                        IF w = 0 THEN StandaloneCall(kind, p) ELSE ThreadInit]
    /\ thread_stats = [w \in Threads |-> << >>]
    /\ obs = [w \in Threads |-> ObsInit]

NextWalk ==
    \/ ListingFetch(0)
    \/ ListingLoop(0)
    \/ FloorStep(0)
    \/ TxFetch(0)
    \/ TxLoop(0)

SpecWalk == InitWalk /\ [][NextWalk]_vars

\* ------------------------------------------------------------ _run_thread
\* The end of one iteration of "for index, row in df.iterrows()".  Every
\* local of the loop body is assigned again before it is next read, so the
\* locals start the next iteration (or the return) as they were at entry.
NextRow(t, w) ==
    IF t.index < Len(patches[w + 1])
    THEN [ThreadInit EXCEPT !.pc = "supply", !.index = t.index + 1]
    ELSE [ThreadInit EXCEPT !.pc = "completed", !.index = t.index]

\* _run_thread without the per-address try: the error ends the thread.
AddressRaise(t, w) == [t EXCEPT !.pc = "raised"]

\* The except branch of the per-address try of _run_thread: the error is
\* printed and the loop goes on.
AddressExcept(t, w) == NextRow(t, w)

\* Entry of _run_thread: contract_stats = [], df.reset_index(), the first row.
ThreadStart(w) ==
    /\ th[w].pc = "start"
    /\ LET t == th[w]
           u == NextRow([t EXCEPT !.index = 0], w)
       IN  /\ th' = [th EXCEPT ![w] = u]
           /\ obs' = [obs EXCEPT ![w] = Observe(obs[w], t, u)]
    /\ thread_stats' = [thread_stats EXCEPT ![w] = << >>]
    /\ UNCHANGED <<envVars, mainVars, foldVars, backup>>

\* _get_token_supply, then the entry of the nftport listing walk.
SupplyStep(w) ==
    /\ th[w].pc = "supply"
    /\ \E resp \in SupplyValues :
         LET t == th[w]
             u == IF resp.raises THEN AddressExcept(t, w)
                  ELSE EnterListing([t EXCEPT !.token_supply = resp.totalSupply],
                                    "nftport")
             o == [obs[w] EXCEPT
                      !.errors = IF resp.raises THEN @ \cup {t.index} ELSE @]
         IN  /\ th' = [th EXCEPT ![w] = u]
             /\ obs' = [obs EXCEPT ![w] = Observe(o, t, u)]
    /\ UNCHANGED <<envVars, mainVars, foldVars, thread_stats, backup>>

\* CompareContractStats(...) and contract_stats.append(compare_contract_stat).
AppendStep(w) ==
    /\ th[w].pc = "append"
    /\ LET t == th[w]
           row == Row(w)
           compare_contract_stat ==
               CompareContractStats(row.contract_address, row.slug, t.token_supply,
                                    t.stats["nftport"], t.stats["alchemy"],
                                    t.stats["moralis"], t.stats["quicknode"])
           u == [t EXCEPT !.pc = "backup"]
       IN  /\ thread_stats' = [thread_stats EXCEPT
                                  ![w] = Append(@, compare_contract_stat)]
           /\ th' = [th EXCEPT ![w] = u]
           /\ obs' = [obs EXCEPT ![w] = Observe(obs[w], t, u)]
    /\ UNCHANGED <<envVars, mainVars, foldVars, backup>>

\* What one run of writes of _backup_write_stats appends to the file: the
\* separator, address, slug and token supply lines ("head"), or the lines of
\* the four providers ("providers").  Every _log_backup opens the file for
\* append, writes and closes it.
BackupLines(address, part) == [address |-> address, part |-> part]

\* _backup_write_stats writing its provider lines without a head before them.
BackupHeadOmitted(log, address) == log

\* The first writes of _backup_write_stats(compare_contract_stat).
BackupHead(log, address) == Append(log, BackupLines(address, "head"))

\* _backup_write_stats(compare_contract_stat): the head lines.
BackupStep(w) ==
    /\ th[w].pc = "backup"
    /\ LET t == th[w]
           u == [t EXCEPT !.pc = "backup_providers"]
       IN  /\ backup' = BackupHead(backup, Row(w).contract_address)
           /\ th' = [th EXCEPT ![w] = u]
           /\ obs' = [obs EXCEPT ![w] = Observe(obs[w], t, u)]
    /\ UNCHANGED <<envVars, mainVars, foldVars, thread_stats>>

\* _backup_write_stats(compare_contract_stat): the lines of the four
\* providers, then the next row.
BackupProvidersStep(w) ==
    /\ th[w].pc = "backup_providers"
    /\ LET t == th[w]
           u == NextRow(t, w)
       IN  /\ backup' = Append(backup, BackupLines(Row(w).contract_address, "providers"))
           /\ th' = [th EXCEPT ![w] = u]
           /\ obs' = [obs EXCEPT ![w] = Observe(obs[w], t, u)]
    /\ UNCHANGED <<envVars, mainVars, foldVars, thread_stats>>

\* -------------------------------------------------------------------- main
RECURSIVE Stride(_, _, _)
\* s[start::step], with start counted from 1.
Stride(s, start, step) ==
    IF start > Len(s) THEN << >>
    ELSE << s[start] >> \o Stride(s, start + step, step)

\* _get_patches with range(1, PROCESS_COUNT + 1) for range(PROCESS_COUNT).
GetPatchesFromOne(d, n) == [i \in 1..n |-> Stride(d, i + 1, n)]

\* [df.iloc[i::PROCESS_COUNT] for i in range(PROCESS_COUNT)]
_get_patches(d, n) == [i \in 1..n |-> Stride(d, i, n)]

\* The per-provider part of one iteration of the fold.
AddProvider(g, c) ==
    [g EXCEPT
        !.total_num_nfts = @ + c.num_nfts,
        !.total_num_has_metadata = @ + c.num_has_metadata,
        !.total_num_has_cached_image = @ + c.num_has_cached_image,
        !.total_num_sale_transactions = @ + c.num_sale_transactions,
        !.total_collections_floor_price_found =
            @ + (IF c.has_floor_price THEN 1 ELSE 0)]

\* One iteration of the fold, had the four provider defaults been one object.
AddContractOneDefault(acc, contract_stat) ==
    LET all == AddProvider(AddProvider(AddProvider(AddProvider(
                   acc.prov["nftport"], contract_stat.nftport),
                   contract_stat.alchemy), contract_stat.moralis),
                   contract_stat.quicknode)
    IN  [acc EXCEPT
            !.total_num_collections = @ + 1,
            !.total_token_supply =
                @ + (IF contract_stat.token_supply = None THEN 0
                     ELSE contract_stat.token_supply),
            !.prov = [p \in ProviderSet |-> all]]

\* One iteration of "for contract_stat in contract_stats".
AddContract(acc, contract_stat) ==
    [acc EXCEPT
        !.total_num_collections = @ + 1,
        !.total_token_supply =
            @ + (IF contract_stat.token_supply = None THEN 0
                 ELSE contract_stat.token_supply),
        !.prov = [p \in ProviderSet |-> AddProvider(@[p], contract_stat[p])]]

RECURSIVE FoldContracts(_, _, _)
FoldContracts(list, i, acc) ==
    IF i > Len(list) THEN acc
    ELSE FoldContracts(list, i + 1, AddContract(acc, list[i]))

\* GlobalCompareContractStats(): the two integer fields are fresh, the four
\* provider fields are the default instances made once, when the class was
\* defined, and shared by every instance.
GlobalCompareContractStats(dflt) ==
    [total_num_collections |-> 0, total_token_supply |-> 0, prov |-> dflt]

\* GlobalCompareContractStats(), were the provider fields made by a default_factory.
FreshGlobalCompareContractStats(dflt) ==
    [total_num_collections |-> 0, total_token_supply |-> 0,
     prov |-> [p \in ProviderSet |-> GlobalContractsStats]]

\* The value _calculate_global_stats returns; its prov field is also the
\* state the shared default instances are left in.
_calculate_global_stats(list, dflt) ==
    FoldContracts(list, 1, GlobalCompareContractStats(dflt))

\* A call of _calculate_global_stats.
CalculateGlobalStats(list) ==
    LET g == _calculate_global_stats(list, defaults)
    IN  /\ global_stats' = g
        /\ defaults' = g.prov
        /\ calls' = calls + 1

\* f.result() that does not wait for the thread.
FutureDoneNoWait(w) == th[w].pc # "idle"

\* f.result() returns: the thread has run _run_thread to its return.
FutureDone(w) == th[w].pc = "completed"

\* contract_stats = res in place of contract_stats.extend(res).
ExtendOverwrites(list, res) == res

\* if res: contract_stats.extend(res)
Extend(list, res) == IF res # << >> THEN list \o res ELSE list

\* The per-address sections of _write_stats, written last record first.
SectionsReversed(contracts) ==
    [i \in 1..Len(contracts) |->
        [section |-> "contract",
         address |-> contracts[Len(contracts) + 1 - i].address]]

\* for contract in contracts: one section per record, in list order.
Sections(contracts) ==
    [i \in 1..Len(contracts) |->
        [section |-> "contract", address |-> contracts[i].address]]

\* pd.read_csv(...), _get_patches(df), _clear_backup().
MainStart ==
    /\ mainPc = "start"
    /\ patches' = _get_patches(df, PROCESS_COUNT)
    /\ backup' = << >>
    /\ mainPc' = "submit"
    /\ UNCHANGED <<envVars, foldVars, df, futures, joined, contract_stats, report,
                   th, thread_stats, obs>>

\* One iteration of the submit loop: executor.submit(_run_thread, patches[i], ...).
MainSubmit ==
    /\ mainPc = "submit"
    /\ futures < Len(patches)
    /\ th' = [th EXCEPT ![futures] = [ThreadInit EXCEPT !.pc = "start"]]
    /\ futures' = futures + 1
    /\ mainPc' = IF futures + 1 = Len(patches) THEN "join" ELSE "submit"
    /\ UNCHANGED <<envVars, foldVars, df, patches, joined, contract_stats, report,
                   thread_stats, obs, backup>>

\* One iteration of "for f in futures": res = f.result(); extend if res.
\* After the last one the with block is left and main goes on.
MainJoin ==
    /\ mainPc = "join"
    /\ joined < futures
    /\ FutureDone(joined)
    /\ contract_stats' = Extend(contract_stats, thread_stats[joined])
    /\ joined' = joined + 1
    /\ mainPc' = IF joined + 1 = futures THEN "calc" ELSE "join"
    /\ UNCHANGED <<envVars, foldVars, df, patches, futures, report, threadVars>>

\* global_stats = _calculate_global_stats(contract_stats)
MainCalc ==
    /\ mainPc = "calc"
    /\ CalculateGlobalStats(contract_stats)
    /\ mainPc' = "write_global"
    /\ UNCHANGED <<envVars, df, patches, futures, joined, contract_stats, report,
                   threadVars>>

\* _write_global_stats(global_stats): _clear(), then the global section.
MainWriteGlobal ==
    /\ mainPc = "write_global"
    /\ report' = << [section |-> "global", address |-> None] >>
    /\ mainPc' = "write_stats"
    /\ UNCHANGED <<envVars, foldVars, df, patches, futures, joined, contract_stats,
                   threadVars>>

\* _write_stats(contract_stats): one section per record, in list order.
MainWriteStats ==
    /\ mainPc = "write_stats"
    /\ report' = report \o Sections(contract_stats)
    /\ mainPc' = "done"
    /\ UNCHANGED <<envVars, foldVars, df, patches, futures, joined, contract_stats,
                   threadVars>>

\* The rows of top_collections.csv: contract_address and slug.
Rows(k) == [i \in 1..k |-> [contract_address |-> i, slug |-> i]]

\* stats_backup.md as an earlier run left it.
StaleBackup == << BackupLines(0, "head"), BackupLines(0, "providers") >>

Init ==
    /\ scenario \in {"listing", "transactions", "run"}
    /\ order = "any"
    /\ clock = MaxTime
    /\ IF scenario = "run"
       THEN /\ PROCESS_COUNT \in 1..MaxShards
            /\ is_get_transactions = TRUE
            /\ \E k \in 0..MaxAddresses : df = Rows(k)
       ELSE /\ PROCESS_COUNT = 1
            /\ is_get_transactions \in (IF scenario = "listing" THEN Bool ELSE {TRUE})
            /\ df = Rows(1)
    /\ patches = << >> /\ mainPc = "start" /\ futures = 0 /\ joined = 0
    /\ contract_stats = << >> /\ report = << >>
    /\ backup \in {<< >>, StaleBackup}
    /\ InitFold
    /\ th = [w \in Threads |-> ThreadInit]
    /\ thread_stats = [w \in Threads |-> << >>]
    /\ obs = [w \in Threads |-> ObsInit]

ThreadStep(w) ==
    \/ ThreadStart(w)
    \/ SupplyStep(w)
    \/ ListingFetch(w)
    \/ ListingLoop(w)
    \/ FloorStep(w)
    \/ TxFetch(w)
    \/ TxLoop(w)
    \/ AppendStep(w)
    \/ BackupStep(w)
    \/ BackupProvidersStep(w)

Next ==
    \/ MainStart
    \/ MainSubmit
    \/ MainJoin
    \/ MainCalc
    \/ MainWriteGlobal
    \/ MainWriteStats
    \/ \E w \in Threads : ThreadStep(w)

Spec == Init /\ [][Next]_vars

\* A run of main in which every call returns or fails: the threads of the
\* pool (max_workers = PROCESS_COUNT, one per shard) and main keep running.
InitLive ==
    /\ scenario = "live"
    /\ order = "any"
    /\ clock = MaxTime
    /\ PROCESS_COUNT \in 1..MaxShards
    /\ is_get_transactions = TRUE
    /\ \E k \in 0..MaxLiveAddresses : df = Rows(k)
    /\ patches = << >> /\ mainPc = "start" /\ futures = 0 /\ joined = 0
    /\ contract_stats = << >> /\ report = << >> /\ backup = << >>
    /\ InitFold
    /\ th = [w \in Threads |-> ThreadInit]
    /\ thread_stats = [w \in Threads |-> << >>]
    /\ obs = [w \in Threads |-> ObsInit]

MainStep ==
    MainStart \/ MainSubmit \/ MainJoin \/ MainCalc \/ MainWriteGlobal \/ MainWriteStats

Fairness ==
    /\ WF_vars(MainStep)
    /\ \A w \in Threads : WF_vars(ThreadStep(w))

SpecLive == InitLive /\ [][Next]_vars /\ Fairness

\* ------------------------------------------------- one network call
\* The request is sent and a reply with some status arrives.
ClientSend ==
    /\ client.pc = "send"
    /\ \E status \in Statuses :
         client' = [client EXCEPT !.pc = "reply", !.sent = @ + 1,
                                  !.log = Append(@, status)]
    /\ UNCHANGED <<scenario, PROCESS_COUNT, is_get_transactions, clock, order,
                   own, mainVars, foldVars, threadVars>>

\* The adapter looks at the reply: a status outside the force list is handed
\* to the caller; otherwise one retry is taken from the budget and the
\* request is sent again after the backoff, or, the budget used up, the
\* call raises.
ClientReply ==
    /\ client.pc = "reply"
    /\ LET status == client.log[Len(client.log)]
       IN  client' =
             IF ~is_retry(client.method, status)
             THEN [client EXCEPT !.pc = "returned"]
             ELSE IF is_exhausted(client.total - 1)
             THEN [client EXCEPT !.pc = "raised", !.total = @ - 1]
             ELSE [client EXCEPT !.pc = "send", !.total = @ - 1]
    /\ UNCHANGED <<scenario, PROCESS_COUNT, is_get_transactions, clock, order,
                   own, mainVars, foldVars, threadVars>>

InitCall ==
    /\ scenario = "call" /\ order = "any" /\ clock = MaxTime
    /\ PROCESS_COUNT = 1 /\ is_get_transactions = TRUE
    /\ InitIdleMain
    /\ global_stats = [total_num_collections |-> 0, total_token_supply |-> 0,
                       prov |-> [p \in ProviderSet |-> GlobalContractsStats]]
    /\ defaults = [p \in ProviderSet |-> GlobalContractsStats]
    /\ calls = 0
    /\ th = [w \in Threads |-> ThreadInit]
    /\ thread_stats = [w \in Threads |-> << >>]
    /\ obs = [w \in Threads |-> ObsInit]
    /\ \E method \in Methods : client = ClientCall(method)
    /\ own = OwnIdle

NextCall ==
    \/ ClientSend
    \/ ClientReply

SpecCall == InitCall /\ [][NextCall]_vars

\* ---------------------------------------------- compare_ownership: main
\* wallet_stats.<p>_nfts_count = _get_<p>_stats(address): count = 0, then
\* the request; an exception leaves count at 0.
GetWalletStats ==
    /\ own.pc = "get"
    /\ \E resp \in WalletResponses :
         LET p == WalletProviders[own.k]
             count == IF resp.raises THEN WalletExcept(0) ELSE resp.total
         IN  own' = [own EXCEPT
                        !.wallet_stats.nfts_count[p] = count,
                        !.raised = IF resp.raises THEN @ \cup {p} ELSE @,
                        !.k = IF own.k < Len(WalletProviders) THEN @ + 1 ELSE @,
                        !.pc = IF own.k < Len(WalletProviders) THEN "get" ELSE "add"]
    /\ UNCHANGED <<scenario, PROCESS_COUNT, is_get_transactions, clock, order,
                   client, mainVars, foldVars, threadVars>>

\* The four += and wallets_stats.append(wallet_stats).  int += None raises
\* a TypeError that nothing catches: main ends there, the totals of the
\* providers before it already added.
AddWalletStats ==
    /\ own.pc = "add"
    /\ LET ws == own.wallet_stats
           bad == {k \in 1..Len(WalletProviders) :
                      ws.nfts_count[WalletProviders[k]] = None}
           first == CHOOSE k \in bad : \A j \in bad : k <= j
       IN  own' =
             IF bad = {}
             THEN NextWallet([own EXCEPT
                                 !.gloabl_stats = Accumulate(@, ws),
                                 !.wallets_stats = Append(@, ws)])
             ELSE [own EXCEPT
                      !.pc = "raised",
                      !.gloabl_stats =
                          [p \in ProviderSet |->
                              IF \E j \in 1..(first - 1) : WalletProviders[j] = p
                              THEN @[p] + ws.nfts_count[p] ELSE @[p]]]
    /\ UNCHANGED <<scenario, PROCESS_COUNT, is_get_transactions, clock, order,
                   client, mainVars, foldVars, threadVars>>

\* _clear(), the global section, then one section per WalletStats in list order.
WriteWalletStats ==
    /\ own.pc = "write"
    /\ own' = [own EXCEPT
                  !.pc = "done",
                  !.file = << [section |-> "global", address |-> None] >>
                           \o [i \in 1..Len(own.wallets_stats) |->
                                  [section |-> "wallet",
                                   address |-> own.wallets_stats[i].address]]]
    /\ UNCHANGED <<scenario, PROCESS_COUNT, is_get_transactions, clock, order,
                   client, mainVars, foldVars, threadVars>>

InitOwn ==
    /\ scenario = "wallets" /\ order = "any" /\ clock = MaxTime
    /\ PROCESS_COUNT = 1 /\ is_get_transactions = TRUE
    /\ InitIdleMain
    /\ global_stats = [total_num_collections |-> 0, total_token_supply |-> 0,
                       prov |-> [p \in ProviderSet |-> GlobalContractsStats]]
    /\ defaults = [p \in ProviderSet |-> GlobalContractsStats]
    /\ calls = 0
    /\ th = [w \in Threads |-> ThreadInit]
    /\ thread_stats = [w \in Threads |-> << >>]
    /\ obs = [w \in Threads |-> ObsInit]
    /\ client = ClientIdle
    /\ \E n \in 0..MaxWallets : own = OwnStart([i \in 1..n |-> i])

NextOwn ==
    \/ GetWalletStats
    \/ AddWalletStats
    \/ WriteWalletStats

SpecOwn == InitOwn /\ [][NextOwn]_vars

\* ------------------------------------------- the fold, called repeatedly
\* Records as the walks produce them, with different counters per provider.
Sample(n, m, c, s, f) ==
    [num_nfts |-> n, num_has_metadata |-> m, num_has_cached_image |-> c,
     num_sale_transactions |-> s, has_floor_price |-> f]

SampleContracts ==
    {CompareContractStats(1, 1, MaxSupply, Sample(2, 1, 1, 1, TRUE),
                          Sample(1, 1, 0, 0, FALSE), Sample(0, 0, 0, 0, FALSE),
                          Sample(2, 2, 0, 0, FALSE)),
     CompareContractStats(2, 2, None, Sample(0, 0, 0, 0, FALSE),
                          Sample(2, 1, 1, 2, TRUE), Sample(1, 0, 0, 1, TRUE),
                          Sample(0, 0, 0, 0, FALSE)),
     CompareContractStats(3, 3, 0, Sample(1, 1, 0, 0, FALSE),
                          Sample(1, 1, 1, 1, FALSE), Sample(2, 2, 0, 0, TRUE),
                          Sample(1, 0, 0, 0, FALSE))}

SampleLists ==
    UNION {[1..k -> SampleContracts] : k \in 0..MaxAddresses}

\* main has joined its workers and holds some results list.
InitCalc ==
    /\ scenario = "fold" /\ order = "any" /\ clock = MaxTime
    /\ PROCESS_COUNT = 1 /\ is_get_transactions = TRUE
    /\ df = << >> /\ patches = << >> /\ mainPc = "calc"
    /\ futures = 0 /\ joined = 0 /\ report = << >> /\ backup = << >>
    /\ contract_stats \in SampleLists
    /\ InitFold
    /\ th = [w \in Threads |-> ThreadInit]
    /\ thread_stats = [w \in Threads |-> << >>]
    /\ obs = [w \in Threads |-> ObsInit]

\* A further call of _calculate_global_stats on the same list, in the same process.
Recalculate ==
    /\ mainPc = "write_global"
    /\ calls < MaxCalls
    /\ CalculateGlobalStats(contract_stats)
    /\ UNCHANGED <<envVars, mainVars, threadVars>>

NextFold ==
    \/ MainCalc
    \/ Recalculate

SpecFold == InitCalc /\ [][NextFold]_vars

\* ================================================================ claims
InWalk(w, kind) == th[w].pc \in (IF kind = "list" THEN {"list", "floor"} ELSE {"tx"})

\* C2 (as claimed): no walk issues more page requests than the configured
\* page cap, even when every response carries a non-empty cursor or page.
C2_WithinPageCap == \A w \in Threads : obs[w].requests <= PageCap

\* C3 (as claimed): on a descending transaction stream, once the first
\* record older than the lookback limit has been read, no later record is
\* counted and no further page is requested.
C3_StopsAtFirstOldRecord ==
    order = "desc" => \A w \in Threads : ~obs[w].afterOld

C5_CountersOrdered ==
    \A w \in Threads : \A p \in ProviderSet :
        LET st == th[w].stats[p]
        IN  /\ st.num_nfts >= st.num_has_metadata /\ st.num_has_metadata >= 0
            /\ (p \in {"nftport", "alchemy"} =>
                    /\ st.num_has_metadata >= st.num_has_cached_image
                    /\ st.num_has_cached_image >= 0)

\* C5 (amended): num_nfts >= num_has_metadata >= 0 for the four providers;
\* num_has_metadata >= num_has_cached_image >= 0 for alchemy; for nftport
\* only num_nfts >= num_has_cached_image >= 0.
C5_CountersOrderedAmended ==
    \A w \in Threads : \A p \in ProviderSet :
        LET st == th[w].stats[p]
        IN  /\ st.num_nfts >= st.num_has_metadata /\ st.num_has_metadata >= 0
            /\ (p = "alchemy" =>
                    /\ st.num_has_metadata >= st.num_has_cached_image
                    /\ st.num_has_cached_image >= 0)
            /\ (p = "nftport" =>
                    /\ st.num_nfts >= st.num_has_cached_image
                    /\ st.num_has_cached_image >= 0)

C5_Witness ==
    /\ th[0].pc = "returned" /\ th[0].prov = "alchemy"
    /\ th[0].stats["alchemy"].num_nfts = 3
    /\ th[0].stats["alchemy"].num_has_metadata = 2
    /\ th[0].stats["alchemy"].num_has_cached_image = 1

\* C1: when a page request of a listing walk raises, the stats the walk
\* returns count exactly the records of the pages fetched before it, the
\* error does not reach _run_thread, and all four listing walks of the
\* address have run by the time the transaction pass or the record is reached.
C1_ListingErrorIsolated ==
    \A w \in Threads :
        /\ \A p \in obs[w].walked : th[w].stats[p].num_nfts = obs[w].delivered[p]
        /\ (obs[w].failed # {} => th[w].index \notin obs[w].errors)
        /\ (th[w].pc \in {"tx", "append", "backup", "backup_providers"}
               => obs[w].walked = ProviderSet)

C1_Witness ==
    /\ th[0].pc = "append"
    /\ obs[0].failed = {"nftport"}
    /\ th[0].stats["nftport"].num_nfts = 1
    /\ th[0].stats["alchemy"].num_nfts = 1 /\ th[0].stats["alchemy"].has_floor_price
    /\ th[0].stats["moralis"].num_nfts = 1
    /\ th[0].stats["quicknode"].num_nfts = 1

RECURSIVE SumFn(_, _)
\* The sum of f over the set S of its arguments.
SumFn(f, S) ==
    IF S = {} THEN 0
    ELSE LET x == CHOOSE y \in S : TRUE IN f[x] + SumFn(f, S \ {x})

\* The totals of provider p over the records of list, summed in no order.
ExpectedProvider(list, p) ==
    LET I == 1..Len(list)
    IN  [total_num_nfts |-> SumFn([i \in I |-> list[i][p].num_nfts], I),
         total_num_has_metadata |-> SumFn([i \in I |-> list[i][p].num_has_metadata], I),
         total_num_has_cached_image |->
             SumFn([i \in I |-> list[i][p].num_has_cached_image], I),
         total_num_sale_transactions |->
             SumFn([i \in I |-> list[i][p].num_sale_transactions], I),
         total_collections_floor_price_found |->
             Cardinality({i \in I : list[i][p].has_floor_price})]

ExpectedGlobal(list) ==
    LET I == 1..Len(list)
    IN  [total_num_collections |-> Len(list),
         total_token_supply |->
             SumFn([i \in I |-> IF list[i].token_supply = None THEN 0
                                ELSE list[i].token_supply], I),
         prov |-> [p \in ProviderSet |-> ExpectedProvider(list, p)]]

\* C6: the call main makes of _calculate_global_stats (the first of the
\* process) returns, per provider, the sums of the records' counters, the
\* number of records and the sum of the token supplies; every permutation
\* of the list gives the same totals.
C6_GlobalTotalsAreSums ==
    calls = 1 =>
        /\ global_stats = ExpectedGlobal(contract_stats)
        /\ \A q \in Permutations(1..Len(contract_stats)) :
               _calculate_global_stats(
                   [i \in 1..Len(contract_stats) |-> contract_stats[q[i]]],
                   [p \in ProviderSet |-> GlobalContractsStats]) = global_stats

C6_Witness ==
    /\ calls = 1 /\ Len(contract_stats) = 3
    /\ global_stats.total_num_collections = 3
    /\ global_stats.total_token_supply = MaxSupply
    /\ global_stats.prov["nftport"].total_num_nfts = 3
    /\ global_stats.prov["alchemy"].total_num_nfts = 4
    /\ global_stats.prov["moralis"].total_collections_floor_price_found = 2

\* C7 (as claimed): every call of _calculate_global_stats in a process
\* returns totals that depend only on the list it was given.
C7_EveryCallStartsFromZero ==
    calls >= 1 => global_stats = ExpectedGlobal(contract_stats)

\* C8: an error that reaches the per-address try of _run_thread is caught
\* there: the thread goes on with the next row of its shard, or returns
\* when there is none, and no results list and no other thread changes.
C8_AddressErrorContained ==
    [][\A w \in Threads :
          obs'[w].errors # obs[w].errors =>
              /\ th'[w].pc = (IF th[w].index < Len(patches[w + 1])
                              THEN "supply" ELSE "completed")
              /\ (th'[w].pc = "supply" => th'[w].index = th[w].index + 1)
              /\ thread_stats' = thread_stats
              /\ contract_stats' = contract_stats
              /\ \A v \in Threads \ {w} : th'[v] = th[v]]_vars

C8_Witness ==
    /\ mainPc = "done" /\ PROCESS_COUNT = 2 /\ Len(df) = 3
    /\ obs[0].errors = {1} /\ obs[1].errors = {}
    /\ th[0].pc = "completed"
    /\ Len(thread_stats[0]) = 1 /\ thread_stats[0][1].address = 3
    /\ Len(contract_stats) = 2

\* C9: only main changes the global results list, and only by taking the
\* list of a thread that has returned; a thread changes only its own list;
\* _calculate_global_stats starts only when every thread has returned.
C9_ResultsWrittenAfterJoin ==
    [][/\ (contract_stats' # contract_stats =>
              /\ mainPc = "join" /\ th[joined].pc = "completed"
              /\ th' = th /\ thread_stats' = thread_stats)
       /\ (\A w \in Threads :
              thread_stats'[w] # thread_stats[w] =>
                  /\ th[w].pc \in {"start", "append"} /\ th'[w] # th[w]
                  /\ contract_stats' = contract_stats
                  /\ \A v \in Threads \ {w} :
                         thread_stats'[v] = thread_stats[v] /\ th'[v] = th[v])
       /\ (calls' # calls =>
              /\ mainPc = "calc"
              /\ \A w \in 0..(PROCESS_COUNT - 1) : th[w].pc = "completed")]_vars

C9_Witness ==
    /\ mainPc = "write_global" /\ calls = 1 /\ PROCESS_COUNT = 2
    /\ Len(thread_stats[0]) = 2 /\ Len(thread_stats[1]) = 1
    /\ Len(contract_stats) = 3

\* C10: _get_patches puts the row at index i (from 0) into shard
\* i mod PROCESS_COUNT, after the earlier rows of that shard; the shards
\* hold nothing else, so every row is in exactly one shard, and a list
\* shorter than the shard count leaves shards empty.
C10_RoundRobinPartition ==
    mainPc # "start" =>
        /\ Len(patches) = PROCESS_COUNT
        /\ \A i \in 0..(Len(df) - 1) :
               LET shard == patches[(i % PROCESS_COUNT) + 1]
                   at == (i \div PROCESS_COUNT) + 1
               IN  at <= Len(shard) /\ shard[at] = df[i + 1]
        /\ SumFn([k \in 1..PROCESS_COUNT |-> Len(patches[k])], 1..PROCESS_COUNT)
               = Len(df)
        /\ \A j, k \in 1..PROCESS_COUNT :
               j # k => \A a \in 1..Len(patches[j]) : \A b \in 1..Len(patches[k]) :
                           patches[j][a] # patches[k][b]

C10_Witness ==
    /\ mainPc = "submit" /\ PROCESS_COUNT = 2 /\ Len(df) = 3
    /\ patches = << << df[1], df[3] >>, << df[2] >> >>

C10_WitnessEmptyShard ==
    /\ mainPc = "submit" /\ PROCESS_COUNT = 2 /\ Len(df) = 1
    /\ patches = << << df[1] >>, << >> >>

\* C11 (as claimed): a walk one of whose page requests met a non-retryable
\* failure (a 4xx status other than 429, or a body that is not JSON) was
\* aborted by it; the reply is not taken for a page.
C11_NonRetryableAborts ==
    \A w \in Threads : obs[w].nonRetryable => obs[w].aborted

\* C12 (as claimed): a call is sent at most total_retries (5) times in all.
C12_AtMostFiveSends == client.sent <= total_retries

\* C12 (amended): a call is sent at most total_retries + 1 times (the first
\* send and total_retries retries); it raises exactly when total_retries + 1
\* replies in a row had a status of the force list; a reply with any other
\* status is handed to the caller and nothing is sent after it.
C12_BoundedRetries ==
    LET n == Len(client.log)
        Retryable(i) == client.log[i] \in status_forcelist
    IN  /\ client.sent = n /\ n <= total_retries + 1
        /\ \A i \in 1..(n - 1) : Retryable(i)
        /\ (client.pc = "raised" => n = total_retries + 1 /\ Retryable(n))
        /\ (n = total_retries + 1 /\ Retryable(n) => client.pc \in {"reply", "raised"})
        /\ (client.pc = "returned" => n >= 1 /\ ~Retryable(n))
        /\ (n >= 1 /\ ~Retryable(n) => client.pc \in {"reply", "returned"})

C12_Witness ==
    /\ client.pc = "raised" /\ client.sent = total_retries + 1
    /\ \A i \in 1..Len(client.log) : client.log[i] \in status_forcelist

C12_WitnessNoRetry ==
    /\ client.pc = "returned" /\ client.sent = 1 /\ client.log = << 404 >>

\* The counters of a ContractStats.
Counters ==
    {"num_nfts", "num_has_metadata", "num_has_cached_image", "num_sale_transactions"}

\* Thread w is at the same address before and after the step.
SameAddress(w) ==
    /\ th[w].pc \notin {"idle", "start"}
    /\ th'[w].pc \notin {"idle", "start", "supply", "completed"}
    /\ th'[w].index = th[w].index

\* C13: while a thread is at one address, every counter of every provider's
\* ContractStats is at least 0 and no step lowers it, and no step takes
\* has_floor_price from True to False; the steps of the except branches
\* included.
C13_CountersMonotone ==
    [][\A w \in Threads : \A p \in ProviderSet :
          LET old == th[w].stats[p]
              new == th'[w].stats[p]
          IN  /\ \A c \in Counters : old[c] >= 0 /\ new[c] >= 0
              /\ (SameAddress(w) =>
                     /\ \A c \in Counters : new[c] >= old[c]
                     /\ (old.has_floor_price => new.has_floor_price))]_vars

C13_Witness ==
    /\ th[0].pc = "backup" /\ scenario = "listing"
    /\ "moralis" \in obs[0].failed
    /\ th[0].stats["nftport"].num_nfts = 1 /\ th[0].stats["nftport"].has_floor_price
    /\ th[0].stats["alchemy"].num_has_cached_image = 1
    /\ th[0].stats["moralis"].num_nfts = 1 /\ ~th[0].stats["moralis"].has_floor_price

C13_WitnessSales ==
    /\ th[0].pc = "backup" /\ scenario = "transactions"
    /\ th[0].stats["nftport"].num_sale_transactions = 2
    /\ th[0].stats["moralis"].num_sale_transactions = 1

\* s is a prefix of t.
IsPrefix(s, t) == Len(s) <= Len(t) /\ SubSeq(t, 1, Len(s)) = s

\* The positions of log that hold the given lines.
Positions(log, lines) == {i \in 1..Len(log) : log[i] = lines}

\* Thread w has finished the backup block of the i-th record of its list.
BlockWritten(w, i) ==
    i < Len(thread_stats[w]) \/ th[w].pc \notin {"backup", "backup_providers"}

\* C14: the backup file is emptied by main's first step, before any worker
\* is submitted, and by no other step; every other step leaves the file as
\* it was or appends to it, and only a thread that has just appended a
\* record to its list appends, the lines of that record; a finished block is
\* in the file once, its head lines before its provider lines.
C14_BackupAppendOnly ==
    [][/\ (~IsPrefix(backup, backup') =>
              mainPc = "start" /\ futures = 0 /\ backup' = << >>)
       /\ (mainPc = "start" => backup' = << >> /\ mainPc' = "submit")
       /\ (mainPc # "start" /\ backup' # backup =>
              \E w \in Threads :
                 /\ th[w].pc \in {"backup", "backup_providers"}
                 /\ Len(backup') = Len(backup) + 1
                 /\ backup'[Len(backup')].address =
                        thread_stats[w][Len(thread_stats[w])].address)
       /\ (mainPc # "start" =>
              \A w \in Threads : \A i \in 1..Len(thread_stats[w]) :
                 LET a == thread_stats[w][i].address
                     heads == Positions(backup, BackupLines(a, "head"))
                     provs == Positions(backup, BackupLines(a, "providers"))
                 IN  BlockWritten(w, i) =>
                        /\ Cardinality(heads) = 1 /\ Cardinality(provs) = 1
                        /\ \A h \in heads : \A q \in provs : h < q)]_vars

C14_Witness ==
    /\ mainPc = "done" /\ PROCESS_COUNT = 2 /\ Len(df) = 3
    /\ Len(contract_stats) = 3
    /\ backup = << BackupLines(1, "head"), BackupLines(2, "head"),
                   BackupLines(2, "providers"), BackupLines(1, "providers"),
                   BackupLines(3, "head"), BackupLines(3, "providers") >>

\* The report main writes for the list it collected.
ReportOf(list) ==
    << [section |-> "global", address |-> None] >> \o
    [i \in 1..Len(list) |-> [section |-> "contract", address |-> list[i].address]]

\* C15 (as claimed): whatever calls fail, if every call returns or fails
\* and the threads keep running, main eventually has written the report:
\* the global section, then one section per collected record.
C15_ReportEventuallyWritten ==
    <>(mainPc = "done" /\ report = ReportOf(contract_stats))

\* Some thread is in a cursor walk that has gone past the requests counted.
EndlessWalk == \E w \in Threads : th[w].pc \in {"list", "tx"} /\ ~Explored(w)

\* The runs that never write the report are those in which a walk is
\* handed a next cursor for ever.
C15_OnlyEndlessWalksBlock ==
    <>(mainPc = "done" /\ report = ReportOf(contract_stats)) \/ <>[]EndlessWalk

\* C16 (as claimed): on a stream ordered by timestamp, newest first or
\* oldest first, the walk that stops at the first record older than the
\* lookback limit leaves no record unread that it would have counted.
C16_NoSaleDropped ==
    order \in {"desc", "asc"} => \A w \in Threads : ~obs[w].missed

\* The same for the streams that are newest first.
C16_NoSaleDroppedDescending ==
    order = "desc" => \A w \in Threads : ~obs[w].missed

\* C17: in the three transaction walks every counted record has
\* lookback limit <= timestamp <= start limit, and a record newer than the
\* start limit is not counted, sets no flag and does not end the loop: the
\* next record of the page, or the next page, is read after it.
C17_CountedInsideWindow ==
    \A w \in Threads :
        /\ \A ts \in obs[w].counted :
               /\ th[w].transaction_lookback_limit <= ts
               /\ ts <= th[w].transaction_start_limit
        /\ ~obs[w].futureStopped

C17_Witness ==
    /\ th[0].pc = "tx" /\ th[0].prov = "moralis" /\ th[0].phase = "fetch"
    /\ obs[0].lastTs > th[0].transaction_start_limit
    /\ obs[0].counted = {th[0].transaction_lookback_limit,
                         th[0].transaction_start_limit}
    /\ th[0].sales = 2

\* The kind of walk a thread state is in.
KindOf(t) == IF t.pc = "tx" THEN "tx" ELSE "list"

\* The cursor parameter of the first request of a walk.
InitialRequest(kind, p) ==
    RequestCursor(kind, p, IF kind = "list" THEN ListingInitialCursor(p)
                           ELSE TxInitialCursor(p))

\* C18: the first request of a walk carries the provider's initial cursor
\* and every later one the cursor of the response before it; request n of a
\* page-number walk carries page number n; no request follows the last page
\* (falsy cursor, or no records in a page-number walk); a listing walk that
\* returns has counted every record of the pages it was served, the last
\* one included; a walk that ends without an error and without the lookback
\* flag has been served its last page and has read it to its end.
C18_CursorThreaded ==
    [][\A w \in Threads :
          LET t == th[w]
              u == th'[w]
              o == obs[w]
              n == obs'[w]
          IN  /\ (n.requests = o.requests + 1 =>
                     /\ n.sent = IF o.requests = 0
                                 THEN InitialRequest(KindOf(t), t.prov)
                                 ELSE RequestCursor(KindOf(t), t.prov, o.returned)
                     /\ ~o.finalSeen
                     /\ (KindOf(t) = "list" /\ t.prov \in {"nftport", "quicknode"}
                            => n.sentPage = n.requests))
              /\ (t.prov \in n.walked => u.stats[t.prov].num_nfts = n.delivered[t.prov])
              /\ (t.pc \in {"list", "tx"} /\ u.pc \notin {"list", "tx"}
                  /\ ~n.aborted /\ ~u.flag
                     => n.finalSeen /\ u.remaining = 0)]_vars

C18_Witness ==
    /\ th[0].pc = "returned" /\ th[0].prov = "alchemy"
    /\ obs[0].walked = {"alchemy"} /\ ~obs[0].aborted
    /\ obs[0].requests = MaxRequests /\ obs[0].sent = "t2" /\ obs[0].finalSeen
    /\ obs[0].delivered["alchemy"] = 3 /\ th[0].stats["alchemy"].num_nfts = 3

C18_WitnessPageNumber ==
    /\ th[0].pc = "returned" /\ th[0].prov = "quicknode"
    /\ obs[0].requests = MaxRequests /\ obs[0].sentPage = MaxRequests
    /\ obs[0].finalSeen /\ th[0].stats["quicknode"].num_nfts = MaxPageLen

\* The rows of shard k (from 1) that logged no address-level error, in order.
RECURSIVE Kept(_, _)
Kept(k, i) ==
    IF i > Len(patches[k]) THEN << >>
    ELSE (IF i \in obs[k - 1].errors THEN << >> ELSE << patches[k][i].contract_address >>)
         \o Kept(k, i + 1)

\* The kept rows of shards k, k + 1, ..., PROCESS_COUNT, shard after shard.
RECURSIVE KeptFrom(_)
KeptFrom(k) ==
    IF k > PROCESS_COUNT THEN << >> ELSE Kept(k, 1) \o KeptFrom(k + 1)

\* The number of rows that logged an address-level error.
NumErrors ==
    SumFn([w \in Threads |-> Cardinality(obs[w].errors)], Threads)

\* The addresses of the records of a list, in order.
Addresses(list) == [i \in 1..Len(list) |-> list[i].address]

C20_ReportInShardOrder ==
    /\ (mainPc \in {"calc", "write_global", "write_stats", "done"} =>
           Addresses(contract_stats) = KeptFrom(1))
    /\ (mainPc = "done" =>
           /\ report[1].section = "global"
           /\ [i \in 1..(Len(report) - 1) |-> report[i + 1].address] = KeptFrom(1)
           /\ \A i \in 2..Len(report) : report[i].section = "contract")

C20_Witness ==
    /\ mainPc = "done" /\ PROCESS_COUNT = 2 /\ Len(df) = 3
    /\ obs[0].errors = {} /\ obs[1].errors = {}
    /\ [i \in 1..Len(report) |-> report[i].address] = << None, 1, 3, 2 >>
    /\ backup[1].address = 2 /\ backup[2].address = 2

\* Thread w is at a network call of _run_thread for its current row.
AtNetworkCall(w) ==
    th[w].pc \in {"supply", "list", "floor", "tx"} /\ ~th[w].standalone

\* Row j of thread w's shard is resolved: its error is logged, or its record
\* is in the thread's list and its block is in the backup file.
Resolved(w, j) ==
    \/ j \in obs[w].errors
    \/ LET a == patches[w + 1][j].contract_address
       IN  /\ \E i \in 1..Len(thread_stats[w]) : thread_stats[w][i].address = a
           /\ Positions(backup, BackupLines(a, "head")) # {}
           /\ Positions(backup, BackupLines(a, "providers")) # {}

\* C21: within one worker the addresses are processed one after another: a
\* worker at a network call has resolved every earlier row of its shard,
\* and the step that leaves a row is either the logging of its error or
\* the last write of its backup block, taken after the token supply, the
\* four listing walks with their floor prices and, when enabled, the three
\* transaction walks of that row, with its record appended.
C21_OneAddressAtATime ==
    [][\A w \in Threads :
          /\ (AtNetworkCall(w) =>
                 \A j \in 1..(th[w].index - 1) : Resolved(w, j))
          /\ (th[w].index >= 1 /\ th[w].pc \notin {"completed", "idle", "start"}
               /\ th'[w] # th[w] /\ th'[w].pc \in {"supply", "completed"} =>
                 \/ /\ th[w].pc = "supply"
                    /\ th[w].index \in obs'[w].errors
                    /\ thread_stats'[w] = thread_stats[w]
                 \/ /\ th[w].pc = "backup_providers"
                    /\ th[w].index \notin obs'[w].errors
                    /\ obs[w].walked = ListingFunctions
                    /\ obs[w].txWalked =
                           (IF is_get_transactions THEN TxFunctions ELSE {})
                    /\ thread_stats[w][Len(thread_stats[w])].address =
                           Row(w).contract_address
                    /\ backup'[Len(backup')] =
                           BackupLines(Row(w).contract_address, "providers")
                    /\ Positions(backup, BackupLines(Row(w).contract_address,
                                                     "head")) # {})
          /\ (th'[w].index # th[w].index /\ th[w].pc # "idle" =>
                 th'[w].index = th[w].index + 1 /\ th'[w].pc = "supply")]_vars

C21_Witness ==
    /\ PROCESS_COUNT = 1 /\ th[0].index = 2 /\ th[0].pc = "tx"
    /\ th[0].prov = "moralis"
    /\ Len(thread_stats[0]) = 1 /\ thread_stats[0][1].address = 1
    /\ backup = << BackupLines(1, "head"), BackupLines(1, "providers") >>

\* The fields of a record's providers that stand for a capability the
\* provider lacks are at their ContractStats() defaults.
Unsupported(stats) ==
    /\ stats["quicknode"].has_floor_price = FALSE
    /\ stats["quicknode"].num_sale_transactions = 0
    /\ stats["quicknode"].num_has_cached_image = 0
    /\ stats["moralis"].num_has_cached_image = 0

\* The four ContractStats of a record.
StatsOf(record) == [p \in ProviderSet |-> record[p]]

\* C22: quicknode's has_floor_price is False and its num_sale_transactions
\* is 0, and num_has_cached_image is 0 for moralis and quicknode, in every
\* record being built and in every record emitted, whatever the pages
\* held; no floor-price lookup and no transaction walk is made for
\* quicknode, so the missing capability raises nothing.
C22_UnsupportedReadsAsDefault ==
    /\ \A w \in Threads :
          /\ Unsupported(th[w].stats)
          /\ \A i \in 1..Len(thread_stats[w]) : Unsupported(StatsOf(thread_stats[w][i]))
          /\ (th[w].prov = "quicknode" => th[w].pc \notin {"floor", "tx"})
    /\ \A i \in 1..Len(contract_stats) : Unsupported(StatsOf(contract_stats[i]))

C22_Witness ==
    /\ Len(contract_stats) = 1
    /\ contract_stats[1].quicknode.num_nfts = 1
    /\ contract_stats[1].quicknode.num_has_metadata = 1
    /\ contract_stats[1].moralis.num_nfts = 1
    /\ contract_stats[1].nftport.num_has_cached_image = 1
    /\ contract_stats[1].nftport.has_floor_price
    /\ contract_stats[1].moralis.has_floor_price

\* What the listing walks and the supply lookup put in a record.
ListingPart(stats, token_supply) ==
    [token_supply |-> token_supply,
     prov |-> [p \in ProviderSet |->
                 [stats[p] EXCEPT !.num_sale_transactions = 0]]]

\* C23: with is_get_transactions false a worker never enters a transaction
\* walk, so no transaction page is requested, and num_sale_transactions is
\* 0 in every record; with it true the transaction walks change nothing
\* but num_sale_transactions, so the listing counters, has_floor_price and
\* token_supply appended are those the listing walks ended with, which is
\* what is appended when the pass is disabled.
C23_TransactionPassOptional ==
    [][\A w \in Threads :
          /\ (~is_get_transactions =>
                 /\ th[w].pc # "tx" /\ th'[w].pc # "tx"
                 /\ obs'[w].txWalked = {}
                 /\ \A p \in ProviderSet : th'[w].stats[p].num_sale_transactions = 0
                 /\ \A i \in 1..Len(thread_stats'[w]) : \A p \in ProviderSet :
                        thread_stats'[w][i][p].num_sale_transactions = 0
                 /\ (th[w].pc \in {"list", "floor"} /\ th[w].prov = "quicknode"
                     /\ LeftListing(th[w], th'[w]) /\ ~th[w].standalone
                        => th'[w].pc = "append"))
          /\ (th[w].pc = "tx" /\ ~th[w].standalone =>
                 /\ th'[w].pc \in {"tx", "append"}
                 /\ ListingPart(th'[w].stats, th'[w].token_supply)
                        = ListingPart(th[w].stats, th[w].token_supply))
          /\ (th[w].pc = "append" /\ th'[w].pc # "append" =>
                 LET record == thread_stats'[w][Len(thread_stats'[w])]
                 IN  /\ StatsOf(record) = th[w].stats
                     /\ record.token_supply = th[w].token_supply)]_vars

C23_Witness ==
    /\ ~is_get_transactions /\ mainPc = "done" /\ Len(contract_stats) = 1
    /\ contract_stats[1].token_supply = MaxSupply
    /\ contract_stats[1].nftport.num_nfts = 1
    /\ contract_stats[1].nftport.has_floor_price
    /\ contract_stats[1].alchemy.num_nfts = 1
    /\ \A p \in ProviderSet : contract_stats[1][p].num_sale_transactions = 0

C23_WitnessEnabled ==
    /\ is_get_transactions /\ mainPc = "done" /\ Len(contract_stats) = 1
    /\ obs[0].errors = {} /\ scenario = "transactions"
    /\ contract_stats[1].token_supply = MaxSupply
    /\ contract_stats[1].nftport.num_sale_transactions = 1

\* The counters a listing walk accumulates.
ListingCounters(stats) ==
    << stats.num_nfts, stats.num_has_metadata, stats.num_has_cached_image >>

\* C24: a worker comes to the floor-price lookup of nftport, alchemy or
\* moralis only from the listing walk of that provider, once the walk was
\* served its terminating page and no page raised; a walk one of whose
\* pages raised has has_floor_price False; the floor-price step leaves the
\* listing counters as the walk left them, and has_floor_price False if
\* the lookup raised.
C24_FloorAfterCompletedWalk ==
    [][\A w \in Threads :
          LET t == th[w]
              u == th'[w]
              p == t.prov
          IN  /\ (u.pc = "floor" /\ t.pc # "floor" =>
                     /\ t.pc = "list" /\ u.prov = p
                     /\ p \in {"nftport", "alchemy", "moralis"}
                     /\ obs'[w].finalSeen /\ ~obs'[w].aborted
                     /\ p \notin obs'[w].failed
                     /\ ~u.stats[p].has_floor_price)
              /\ (t.pc = "list" /\ obs'[w].aborted =>
                     /\ u.pc # "floor" /\ LeftListing(t, u)
                     /\ ~u.stats[p].has_floor_price
                     /\ ListingCounters(u.stats[p]) = ListingCounters(t.stats[p]))
              /\ (t.pc = "floor" /\ u # t =>
                     /\ LeftListing(t, u)
                     /\ u.pc \in {"list", "tx", "append", "returned"}
                     /\ ListingCounters(u.stats[p]) = ListingCounters(t.stats[p])
                     /\ (obs'[w].floorRaised => ~u.stats[p].has_floor_price))]_vars

C24_Witness ==
    /\ th[0].pc = "returned" /\ th[0].prov = "alchemy"
    /\ obs[0].floorRaised /\ ~obs[0].aborted
    /\ th[0].stats["alchemy"].num_nfts = MaxPageLen
    /\ ~th[0].stats["alchemy"].has_floor_price

C24_WitnessPageRaised ==
    /\ th[0].pc = "returned" /\ th[0].prov = "moralis"
    /\ obs[0].aborted /\ ~obs[0].floorRaised
    /\ th[0].stats["moralis"].num_nfts = 1
    /\ ~th[0].stats["moralis"].has_floor_price

\* C25: the lines of one address's backup block are contiguous in the
\* backup file: no line of another address lies between two of them.
C25_BackupBlocksContiguous ==
    \A i \in 1..Len(backup) : \A j \in i..Len(backup) :
        backup[i].address = backup[j].address =>
            \A k \in i..j : backup[k].address = backup[i].address

\* C25, one worker: with a single worker the blocks are contiguous.
C25_ContiguousWithOneWorker ==
    PROCESS_COUNT = 1 => C25_BackupBlocksContiguous

\* The sum of provider p's counts over a list of WalletStats.
WalletSum(list, p) ==
    SumFn([i \in 1..Len(list) |-> list[i].nfts_count[p]], 1..Len(list))

\* C26: in compare_ownership a request that raises leaves the count of
\* that provider and wallet at 0 and the next provider, or the sums, come
\* next; a wallet whose four counts are numbers is appended and the next
\* wallet, if any, is queried; while main runs, every global total is the
\* sum of that provider's counts over the wallets recorded so far, and the
\* list holds one WalletStats per wallet processed, in input order.
C26_WalletErrorsIsolated ==
    [][/\ (own.pc = "get" /\ own' # own =>
              LET p == WalletProviders[own.k]
              IN  /\ (p \in own'.raised => own'.wallet_stats.nfts_count[p] = 0)
                  /\ \A q \in ProviderSet \ {p} :
                         own'.wallet_stats.nfts_count[q] = own.wallet_stats.nfts_count[q]
                  /\ own'.raised \subseteq own.raised \cup {p}
                  /\ IF own.k < 4 THEN own'.pc = "get" /\ own'.k = own.k + 1
                                       /\ own'.index = own.index
                     ELSE own'.pc = "add"
                  /\ own'.gloabl_stats = own.gloabl_stats
                  /\ own'.wallets_stats = own.wallets_stats)
       /\ (own.pc = "add" /\ own' # own
           /\ (\A p \in ProviderSet : own.wallet_stats.nfts_count[p] # None) =>
              /\ own'.wallets_stats = Append(own.wallets_stats, own.wallet_stats)
              /\ IF own.index < Len(own.wallets)
                 THEN own'.pc = "get" /\ own'.index = own.index + 1 /\ own'.k = 1
                      /\ own'.wallet_stats = WalletStats(own.wallets[own.index + 1])
                 ELSE own'.pc = "write")
       /\ (own'.pc \in {"get", "add", "write", "done"} =>
              /\ \A p \in ProviderSet :
                     own'.gloabl_stats[p] = WalletSum(own'.wallets_stats, p)
              /\ Len(own'.wallets_stats) =
                     (IF own'.pc \in {"get", "add"} THEN own'.index - 1
                      ELSE Len(own'.wallets))
              /\ \A i \in 1..Len(own'.wallets_stats) :
                     own'.wallets_stats[i].address = own'.wallets[i])]_vars

C26_Witness ==
    /\ own.pc = "add" /\ own.index = 2
    /\ own.raised = {"quicknode"}
    /\ own.wallet_stats.nfts_count =
           [p \in ProviderSet |-> IF p = "quicknode" THEN 0 ELSE 1]
    /\ Len(own.wallets_stats) = 1
    /\ own.gloabl_stats = [p \in ProviderSet |-> IF p = "alchemy" THEN 0 ELSE 1]

C26_WitnessDone ==
    /\ own.pc = "done" /\ Len(own.wallets) = MaxWallets
    /\ Len(own.file) = MaxWallets + 1
    /\ own.gloabl_stats = [p \in ProviderSet |-> IF p = "moralis" THEN 2 ELSE 1]

====
